---------------------------- MODULE Spec2Model ----------------------------
(***************************************************************************)
(* Model of Streamlit.py, the business performance dashboard.              *)
(*                                                                         *)
(* A Streamlit script is executed from its first line to its last each     *)
(* time a sidebar widget changes.  The state is the loaded data frame, the *)
(* three widget values and every table the last execution produced; there  *)
(* is one action per widget, and each action is a whole execution of the   *)
(* script with the new widget value.                                       *)
(*                                                                         *)
(* Representation of pandas values:                                        *)
(*   - a data frame is a sequence of rows, a row a function from column    *)
(*     names to cell values; "index" holds the row label of a frame that   *)
(*     keeps the labels of data.csv;                                       *)
(*   - a numeric cell is a set of at most one number: NaN is {}, the       *)
(*     number v is {v};                                                    *)
(*   - a text cell is a string, the empty CSV cell (read as NaN) is "";    *)
(*   - a [Year-Month] label "YYYY-MM" is the pair <<YYYY, MM>>, the empty  *)
(*     cell <<>>, and a label whose month is not in 1..12 cannot be parsed;*)
(*   - the mean of s over n values is the exact fraction [num, den].       *)
(***************************************************************************)
EXTENDS Integers, Sequences, FiniteSets, TLC

VARIABLES data, selected_countries, min_revenue, selected_dates,
          filtered_data, client_revenue, lost_clients, top_lost_clients,
          service_line_quarterly, service_offerings_data,
          client_profitability, country_quarterly, monthly_revenue,
          peak_revenue, low_revenue, status

vars == <<data, selected_countries, min_revenue, selected_dates,
          filtered_data, client_revenue, lost_clients, top_lost_clients,
          service_line_quarterly, service_offerings_data,
          client_profitability, country_quarterly, monthly_revenue,
          peak_revenue, low_revenue, status>>

---------------------------------------------------------------------------
(* Cell values *)

NA == ""
NaT == <<>>
NaN == {}
Num(v) == {v}
Val(x) == CHOOSE v \in x : TRUE

\* Python's string order on the labels the model uses.
Collation ==
    <<"Advisory", "Audit", "C01", "C02", "C03", "C04", "C05", "C06", "C07",
      "C08", "C09", "C10", "C11", "C12", "C13", "MX", "Payroll", "Tax", "US">>

Pos(s) == CHOOSE i \in DOMAIN Collation : Collation[i] = s

LabelLess(a, b) == Pos(a) < Pos(b)

\* String order of two "YYYY-MM" labels.
PeriodLess(a, b) == a[1] < b[1] \/ (a[1] = b[1] /\ a[2] < b[2])

RECURSIVE SeqSum(_)
SeqSum(s) == IF s = <<>> THEN 0 ELSE Head(s) + SeqSum(Tail(s))

\* A sum that does not skip NaN (skipna=False): NaN if a cell is.
nansum_propagating(cells) ==
    IF \E i \in DOMAIN cells : cells[i] = NaN THEN NaN
    ELSE Num(SeqSum([i \in 1..Len(cells) |-> Val(cells[i])]))

\* Series.sum(): NaN cells are skipped, and the sum of no cell is 0.
nansum(cells) ==
    LET present == SelectSeq(cells, LAMBDA c : c # NaN)
    IN  Num(SeqSum([i \in 1..Len(present) |-> Val(present[i])]))

\* a - b and a + b on cells: NaN if either operand is.
Sub(a, b) == IF a = NaN \/ b = NaN THEN NaN ELSE Num(Val(a) - Val(b))
Add(a, b) == IF a = NaN \/ b = NaN THEN NaN ELSE Num(Val(a) + Val(b))

\* a >= b on cells: False if either operand is NaN.
GE(a, b) == a # NaN /\ b # NaN /\ Val(a) >= Val(b)

fillna(c, v) == IF c = NaN THEN Num(v) ELSE c

SetMax(S) == CHOOSE v \in S : \A w \in S : w <= v
SetMin(S) == CHOOSE v \in S : \A w \in S : v <= w

\* Series.max() / Series.min(): NaN cells are skipped, NaN if none is left.
ColumnValues(rows, col) ==
    {Val(rows[i][col]) : i \in {j \in DOMAIN rows : rows[j][col] # NaN}}
series_max(rows, col) ==
    IF ColumnValues(rows, col) = {} THEN NaN
    ELSE Num(SetMax(ColumnValues(rows, col)))
series_min(rows, col) ==
    IF ColumnValues(rows, col) = {} THEN NaN
    ELSE Num(SetMin(ColumnValues(rows, col)))

---------------------------------------------------------------------------
(* Sidebar, lines 14-29 *)

\* data['Country'].dropna().unique()
countries(d) == {d[i]["Country"] : i \in DOMAIN d} \ {NA}

\* data['[Year-Month]'].dropna().unique()
year_months(d) == {d[i]["[Year-Month]"] : i \in DOMAIN d} \ {NaT}

\* The slider's range: data['Revenue'].min() .. data['Revenue'].max()
slider_values(d) ==
    IF ColumnValues(d, "Revenue") = {} THEN {NaN}
    ELSE {Num(v) : v \in SetMin(ColumnValues(d, "Revenue")) ..
                         SetMax(ColumnValues(d, "Revenue"))}

---------------------------------------------------------------------------
(* Filter, lines 31-34 *)

\* The filter with > for >=.
passes_strict(r, sc, mr, sd) ==
    /\ ~(r["Country"] \in sc)
    /\ r["Revenue"] # NaN /\ mr # NaN /\ Val(r["Revenue"]) > Val(mr)
    /\ r["[Year-Month]"] \in sd

passes(r, sc, mr, sd) ==
    /\ ~(r["Country"] \in sc)
    /\ GE(r["Revenue"], mr)
    /\ r["[Year-Month]"] \in sd

\* The filter taking an empty selection of year-months for no selection.
filter_data_unless_no_dates(d, sc, mr, sd) ==
    IF sd = {} THEN SelectSeq(d, LAMBDA r : passes(r, sc, mr, year_months(d)))
    ELSE SelectSeq(d, LAMBDA r : passes(r, sc, mr, sd))

filter_data(d, sc, mr, sd) == SelectSeq(d, LAMBDA r : passes(r, sc, mr, sd))

---------------------------------------------------------------------------
(* Quarter, line 44 *)

\* pd.to_datetime raises on a label that is not a year and a month.
parseable(ym) == Len(ym) = 2 /\ ym[2] \in 1..12

\* .dt.to_period('Q'): the calendar quarter of the month.
to_period_Q(ym) == <<ym[1], ((ym[2] - 1) \div 3) + 1>>

\* str(Period): "<year>Q<quarter>".
YearStr(y) == CASE y = 2023 -> "2023" [] y = 2024 -> "2024" [] OTHER -> "other"
QuarterStr(q) == CASE q = 1 -> "Q1" [] q = 2 -> "Q2" [] q = 3 -> "Q3" [] OTHER -> "Q4"
period_str(p) == YearStr(p[1]) \o QuarterStr(p[2])

\* quarters = ['2023Q4', '2024Q1'], line 45
quarters == <<"2023Q4", "2024Q1">>

with_quarter(fd) ==
    [i \in 1..Len(fd) |-> fd[i] @@ ("Quarter" :> to_period_Q(fd[i]["[Year-Month]"]))]

---------------------------------------------------------------------------
(* groupby(...).sum(): groups in sorted key order, NaN keys dropped *)

group_keys(rows, col) == {rows[i][col] : i \in DOMAIN rows} \ {NA}

\* The keys in descending order (sort=False would leave them as met).
RECURSIVE sorted_labels_descending(_)
sorted_labels_descending(S) ==
    IF S = {} THEN <<>>
    ELSE LET first == CHOOSE k \in S : \A j \in S : ~LabelLess(k, j)
         IN  <<first>> \o sorted_labels_descending(S \ {first})

RECURSIVE sorted_labels(_)
sorted_labels(S) ==
    IF S = {} THEN <<>>
    ELSE LET first == CHOOSE k \in S : \A j \in S : ~LabelLess(j, k)
         IN  <<first>> \o sorted_labels(S \ {first})

RECURSIVE sorted_periods(_)
sorted_periods(S) ==
    IF S = {} THEN <<>>
    ELSE LET first == CHOOSE k \in S : \A j \in S : ~PeriodLess(j, k)
         IN  <<first>> \o sorted_periods(S \ {first})

\* The cells of column col in the rows whose column by holds key.
group_cells(rows, by, key, col) ==
    LET members == SelectSeq(rows, LAMBDA r : r[by] = key)
    IN  [i \in 1..Len(members) |-> members[i][col]]

\* rows.groupby(by)[col].sum(): a series, as a sequence of <<key, sum>>.
groupby_sum(rows, by, col) ==
    LET keys == sorted_labels(group_keys(rows, by))
    IN  [p \in 1..Len(keys) |->
            [key |-> keys[p], sum |-> nansum(group_cells(rows, by, keys[p], col))]]

---------------------------------------------------------------------------
(* DataFrame.sort_values(col): NaN last, equal values in their prior order *)

\* A sort that puts a later row before its equals.
goes_before_its_equals(a, b, ascending) ==
    IF a = NaN THEN FALSE
    ELSE IF b = NaN THEN TRUE
    ELSE IF ascending THEN Val(a) <= Val(b) ELSE Val(a) >= Val(b)

\* Whether a row with cell a, met later, goes before a row with cell b.
goes_before(a, b, ascending) ==
    IF a = NaN THEN FALSE
    ELSE IF b = NaN THEN TRUE
    ELSE IF ascending THEN Val(a) < Val(b) ELSE Val(a) > Val(b)

\* sorted with row placed after every row it does not go before.
insert_row(sorted, row, col, ascending) ==
    LET later == {p \in DOMAIN sorted : goes_before(row[col], sorted[p][col], ascending)}
        at    == IF later = {} THEN Len(sorted) + 1 ELSE SetMin(later)
    IN  SubSeq(sorted, 1, at - 1) \o <<row>> \o SubSeq(sorted, at, Len(sorted))

RECURSIVE sort_values(_, _, _)
sort_values(rows, col, ascending) ==
    IF rows = <<>> THEN <<>>
    ELSE insert_row(sort_values(SubSeq(rows, 1, Len(rows) - 1), col, ascending),
                    rows[Len(rows)], col, ascending)

---------------------------------------------------------------------------
(* Lost Clients, lines 46-54 and 82 *)

empty_frame == [index |-> <<>>, columns |-> <<>>, cells |-> <<>>]

series_lookup(series, key) ==
    IF \E p \in DOMAIN series : series[p].key = key
    THEN series[CHOOSE p \in DOMAIN series : series[p].key = key].sum
    ELSE NaN

\* frame[col] = series, for a new column col.  A frame without rows takes the
\* index of a non-empty series (its earlier columns become NaN); a frame with
\* rows keeps its index and the series is aligned to it.
setitem(frame, col, series) ==
    IF Len(frame.index) = 0 /\ Len(series) > 0
    THEN [index   |-> [p \in 1..Len(series) |-> series[p].key],
          columns |-> Append(frame.columns, col),
          cells   |-> [p \in 1..Len(series) |->
                          Append([c \in 1..Len(frame.columns) |-> NaN], series[p].sum)]]
    ELSE [index   |-> frame.index,
          columns |-> Append(frame.columns, col),
          cells   |-> [p \in 1..Len(frame.index) |->
                          Append(frame.cells[p], series_lookup(series, frame.index[p]))]]

\* filtered_data[filtered_data['Quarter'] == quarter].groupby('Client name')['Revenue'].sum()
quarter_data(fd, quarter) ==
    groupby_sum(SelectSeq(fd, LAMBDA r : period_str(r["Quarter"]) = quarter),
                "Client name", "Revenue")

RECURSIVE quarter_loop(_, _, _)
quarter_loop(frame, fd, k) ==
    IF k > Len(quarters) THEN frame
    ELSE quarter_loop(setitem(frame, quarters[k], quarter_data(fd, quarters[k])), fd, k + 1)

column_of(frame, col) == CHOOSE c \in DOMAIN frame.columns : frame.columns[c] = col

\* The loop, fillna(0) and the Change column.
client_revenue_of(fd) ==
    LET frame == quarter_loop(empty_frame, fd, 1)
        cell(p, col) == fillna(frame.cells[p][column_of(frame, col)], 0)
    IN  [p \in 1..Len(frame.index) |->
            [c \in {"Client name", "2023Q4", "2024Q1", "Change"} |->
                CASE c = "Client name" -> frame.index[p]
                  [] c = "Change" -> Sub(cell(p, "2024Q1"), cell(p, "2023Q4"))
                  [] OTHER -> cell(p, c)]]

\* client_revenue[client_revenue['2024Q1'] == 0].reset_index()
lost_clients_of(cr) == SelectSeq(cr, LAMBDA r : r["2024Q1"] = Num(0))

TopN == 10

\* DataFrame.nsmallest(n, col), keep='first': with n rows or more than the frame
\* has, the frame sorted; otherwise the rows whose value is at most the n-th
\* smallest, sorted with equal values in their prior order, cut to n.  Rows
\* with NaN come last.
nsmallest(rows, n, col) ==
    LET dropped == SelectSeq(rows, LAMBDA r : r[col] # NaN)
        nans    == SelectSeq(rows, LAMBDA r : r[col] = NaN)
        m       == IF n <= Len(dropped) THEN n ELSE Len(dropped)
        kth_val == sort_values(dropped, col, TRUE)[m][col]
        ns      == SelectSeq(dropped, LAMBDA r : Val(r[col]) <= Val(kth_val))
        inds    == IF m = 0 THEN <<>> ELSE SubSeq(sort_values(ns, col, TRUE), 1, m)
    IN  IF n >= Len(rows) THEN sort_values(rows, col, TRUE)
        ELSE SubSeq(inds \o nans, 1, n)

---------------------------------------------------------------------------
(* Service Lines Trends, lines 97-100; Country Revenue Trends, lines 233-236 *)

\* groupby([by, 'Quarter'])['Revenue'].sum().unstack(fill_value=0), then
\* reindex(columns=quarters) and the Change column.  The unstacked frame has a
\* column per quarter seen in a row with a key; reindex keeps the columns
\* named in quarters and adds the ones it lacks, filled with NaN.
quarterly_of(fd, by) ==
    LET keyed    == SelectSeq(fd, LAMBDA r : r[by] # NA)
        keys     == sorted_labels(group_keys(keyed, by))
        observed == {period_str(keyed[i]["Quarter"]) : i \in DOMAIN keyed}
        group(key, quarter) ==
            SelectSeq(keyed, LAMBDA r : r[by] = key /\ period_str(r["Quarter"]) = quarter)
        unstacked(key, quarter) ==
            IF group(key, quarter) = <<>> THEN Num(0)
            ELSE nansum([i \in 1..Len(group(key, quarter)) |-> group(key, quarter)[i]["Revenue"]])
        reindexed(key, quarter) ==
            IF quarter \in observed THEN unstacked(key, quarter) ELSE NaN
    IN  [p \in 1..Len(keys) |->
            [c \in {by, "2023Q4", "2024Q1", "Change"} |->
                CASE c = by -> keys[p]
                  [] c = "Change" -> Sub(reindexed(keys[p], "2024Q1"), reindexed(keys[p], "2023Q4"))
                  [] OTHER -> reindexed(keys[p], c)]]

service_line_quarterly_of(fd) == sort_values(quarterly_of(fd, "Service Lines"), "Change", TRUE)

country_quarterly_of(fd) == sort_values(quarterly_of(fd, "Country"), "Change", FALSE)

---------------------------------------------------------------------------
(* Service Offerings, lines 137-142; Client Profitability, lines 186-195 *)

measures == {"Revenue", "Total Cost", "Gross Profit", "Direct Profit"}

\* groupby(by).agg({measure: 'sum', ...}), the key as a column.
groupby_agg(fd, by) ==
    LET keys == sorted_labels(group_keys(fd, by))
    IN  [p \in 1..Len(keys) |->
            [c \in {by} \cup measures |->
                IF c = by THEN keys[p]
                ELSE nansum(group_cells(fd, by, keys[p], c))]]

service_offerings_data_of(fd) == groupby_agg(fd, "Service Offerings")

client_profitability_of(fd) ==
    LET sorted == sort_values(groupby_agg(fd, "Client name"), "Revenue", FALSE)
        lowest == series_min(sorted, "Direct Profit")
    IN  [p \in 1..Len(sorted) |->
            sorted[p] @@ ("Marker_Size" :>
                Add(Sub(sorted[p]["Direct Profit"], lowest), Num(1)))]

---------------------------------------------------------------------------
(* Revenue Trends, lines 258-259; Peaks and Lows, lines 288-289 *)

Mean(sum, n) == [num |-> sum, den |-> n]

window == 3

\* A window that never lets a value leave (expanding().mean()).
RECURSIVE roll_expanding(_, _)
roll_expanding(cells, i) ==
    IF i = 0 THEN [sum |-> 0, nobs |-> 0]
    ELSE LET prev == roll_expanding(cells, i - 1)
         IN  IF cells[i] = NaN THEN prev
             ELSE [sum |-> prev.sum + Val(cells[i]), nobs |-> prev.nobs + 1]

\* Series.rolling(window).mean(), min_periods = window: the window's sum and
\* its count of numbers are kept up as the window slides (a value enters, the
\* value window places back leaves); the mean is NaN while the window holds
\* fewer than min_periods numbers.
RECURSIVE roll(_, _)
roll(cells, i) ==
    IF i = 0 THEN [sum |-> 0, nobs |-> 0]
    ELSE LET prev    == roll(cells, i - 1)
             entered == IF cells[i] = NaN THEN prev
                        ELSE [sum |-> prev.sum + Val(cells[i]), nobs |-> prev.nobs + 1]
         IN  IF i > window /\ cells[i - window] # NaN
             THEN [sum |-> entered.sum - Val(cells[i - window]), nobs |-> entered.nobs - 1]
             ELSE entered

rolling_mean(cells) ==
    [i \in 1..Len(cells) |->
        IF roll(cells, i).nobs >= window
        THEN Num(Mean(roll(cells, i).sum, roll(cells, i).nobs))
        ELSE NaN]

\* The series without the grouping: a row for each record, by year-month.
monthly_revenue_ungrouped(fd) ==
    LET keys  == sorted_periods({fd[i]["[Year-Month]"] : i \in DOMAIN fd} \ {NaT})
        rows  == [p \in 1..Len(keys) |-> SelectSeq(fd, LAMBDA r : r["[Year-Month]"] = keys[p])]
        RECURSIVE flat(_)
        flat(p) == IF p = 0 THEN <<>> ELSE flat(p - 1) \o rows[p]
        each  == flat(Len(keys))
        means == rolling_mean([p \in 1..Len(each) |-> each[p]["Revenue"]])
    IN  [p \in 1..Len(each) |->
            [c \in {"[Year-Month]", "Revenue", "views_history"} |->
                CASE c = "[Year-Month]" -> each[p]["[Year-Month]"]
                  [] c = "Revenue" -> each[p]["Revenue"]
                  [] OTHER -> means[p]]]

\* groupby(['[Year-Month]'])['Revenue'].sum().reset_index() and views_history
monthly_revenue_of(fd) ==
    LET keys   == sorted_periods({fd[i]["[Year-Month]"] : i \in DOMAIN fd} \ {NaT})
        sums   == [p \in 1..Len(keys) |->
                      nansum(group_cells(fd, "[Year-Month]", keys[p], "Revenue"))]
        means  == rolling_mean(sums)
    IN  [p \in 1..Len(keys) |->
            [c \in {"[Year-Month]", "Revenue", "views_history"} |->
                CASE c = "[Year-Month]" -> keys[p]
                  [] c = "Revenue" -> sums[p]
                  [] OTHER -> means[p]]]

---------------------------------------------------------------------------
(* One execution of the script *)

\* What an execution that stops at line 44 leaves of the tables.
not_rendered ==
    [client_revenue |-> <<>>, lost_clients |-> <<>>, top_lost_clients |-> <<>>,
     service_line_quarterly |-> <<>>, service_offerings_data |-> <<>>,
     client_profitability |-> <<>>, country_quarterly |-> <<>>,
     monthly_revenue |-> <<>>, peak_revenue |-> NaN, low_revenue |-> NaN]

script(d, sc, mr, sd) ==
    LET kept == filter_data(d, sc, mr, sd)
    IN  IF \E i \in DOMAIN kept : ~parseable(kept[i]["[Year-Month]"])
        THEN [filtered_data |-> kept, status |-> "MalformedPeriod"] @@ not_rendered
        ELSE LET fd == with_quarter(kept)
                 cr == client_revenue_of(fd)
                 mo == monthly_revenue_of(fd)
             IN  [filtered_data          |-> fd,
                  status                 |-> "done",
                  client_revenue         |-> cr,
                  lost_clients           |-> lost_clients_of(cr),
                  top_lost_clients       |-> nsmallest(lost_clients_of(cr), TopN, "Change"),
                  service_line_quarterly |-> service_line_quarterly_of(fd),
                  service_offerings_data |-> service_offerings_data_of(fd),
                  client_profitability   |-> client_profitability_of(fd),
                  country_quarterly      |-> country_quarterly_of(fd),
                  monthly_revenue        |-> mo,
                  peak_revenue           |-> series_max(mo, "Revenue"),
                  low_revenue            |-> series_min(mo, "Revenue")]

\* The state an execution with widget values sc, mr, sd leaves.
Executed(d, sc, mr, sd, out) ==
    /\ data = d
    /\ selected_countries = sc
    /\ min_revenue = mr
    /\ selected_dates = sd
    /\ filtered_data = out.filtered_data
    /\ status = out.status
    /\ client_revenue = out.client_revenue
    /\ lost_clients = out.lost_clients
    /\ top_lost_clients = out.top_lost_clients
    /\ service_line_quarterly = out.service_line_quarterly
    /\ service_offerings_data = out.service_offerings_data
    /\ client_profitability = out.client_profitability
    /\ country_quarterly = out.country_quarterly
    /\ monthly_revenue = out.monthly_revenue
    /\ peak_revenue = out.peak_revenue
    /\ low_revenue = out.low_revenue

Rerun(sc, mr, sd) ==
    \E out \in {script(data, sc, mr, sd)} :
        /\ data' = data
        /\ selected_countries' = sc
        /\ min_revenue' = mr
        /\ selected_dates' = sd
        /\ filtered_data' = out.filtered_data
        /\ status' = out.status
        /\ client_revenue' = out.client_revenue
        /\ lost_clients' = out.lost_clients
        /\ top_lost_clients' = out.top_lost_clients
        /\ service_line_quarterly' = out.service_line_quarterly
        /\ service_offerings_data' = out.service_offerings_data
        /\ client_profitability' = out.client_profitability
        /\ country_quarterly' = out.country_quarterly
        /\ monthly_revenue' = out.monthly_revenue
        /\ peak_revenue' = out.peak_revenue
        /\ low_revenue' = out.low_revenue

\* The first execution: no country excluded, the slider at the least revenue,
\* every year-month selected.
FirstRun(d) ==
    \E out \in {script(d, {}, series_min(d, "Revenue"), year_months(d))} :
        Executed(d, {}, series_min(d, "Revenue"), year_months(d), out)

\* A multiselect reruns the script each time one option is added or removed.
toggle(S, x) == IF x \in S THEN S \ {x} ELSE S \cup {x}

\* st.sidebar.multiselect("Exclude Countries:", ...), line 19
ExcludeCountries ==
    \E c \in countries(data) :
        Rerun(toggle(selected_countries, c), min_revenue, selected_dates)

\* st.sidebar.slider("Minimum Revenue:", ...), lines 22-25
SetMinimumRevenue ==
    \E mr \in slider_values(data) : Rerun(selected_countries, mr, selected_dates)

\* st.sidebar.multiselect("Filter by Year-Month:", ...), line 29
FilterByYearMonth ==
    \E ym \in year_months(data) :
        Rerun(selected_countries, min_revenue, toggle(selected_dates, ym))

Next == ExcludeCountries \/ SetMinimumRevenue \/ FilterByYearMonth

---------------------------------------------------------------------------
(* data.csv, line 9 *)

Columns ==
    {"index", "Client name", "Country", "Service Lines", "Service Offerings",
     "[Year-Month]", "Revenue", "Total Cost", "Gross Profit", "Direct Profit"}

Row(client, country, line, offering, ym, revenue, cost, gross, direct) ==
    [c \in Columns \ {"index"} |->
        CASE c = "Client name" -> client
          [] c = "Country" -> country
          [] c = "Service Lines" -> line
          [] c = "Service Offerings" -> offering
          [] c = "[Year-Month]" -> ym
          [] c = "Revenue" -> revenue
          [] c = "Total Cost" -> cost
          [] c = "Gross Profit" -> gross
          [] OTHER -> direct]

\* pd.read_csv: the rows of the file, labelled 0, 1, ...
read_csv(lines) == [i \in 1..Len(lines) |-> lines[i] @@ ("index" :> i - 1)]

\* The files of 1 to n rows of pool with a revenue to set the slider by.
Files(pool, n) ==
    {f \in UNION {[1..k -> pool] : k \in 1..n} :
        \E i \in DOMAIN f : f[i]["Revenue"] # NaN}

MaxRecords == 2

\* Rows that differ in what the filter reads: the country, the revenue (both
\* possibly empty) and the month, and rows whose month is empty or malformed.
FilterPool ==
    {Row("C01", country, "Audit", "Payroll", ym, revenue, Num(1), Num(1), Num(1)) :
        country \in {"MX", "US", NA}, ym \in {<<2023, 11>>, <<2024, 2>>},
        revenue \in {Num(1), Num(2), NaN}}
    \cup {Row("C01", "MX", "Audit", "Payroll", NaT, Num(1), Num(1), Num(1), Num(1)),
          Row("C01", "US", "Audit", "Payroll", <<2023, 13>>, Num(2), Num(1), Num(1), Num(1))}

Init == \E f \in Files(FilterPool, MaxRecords) : FirstRun(read_csv(f))

Spec == Init /\ [][Next]_vars

MaxQuarterRecords == 2

\* Rows of two clients (each with its country, service line and offering) in
\* the two compared quarters and in an earlier one, with revenue -1, 0 or 1.
QuarterPool ==
    {Row(dims[1], dims[2], dims[3], dims[4], ym, revenue, Num(1), Num(1), Num(1)) :
        dims \in {<<"C01", "MX", "Audit", "Payroll">>, <<"C02", "US", "Tax", "Advisory">>},
        ym \in {<<2023, 8>>, <<2023, 11>>, <<2024, 2>>},
        revenue \in {Num(-1), Num(0), Num(1)}}

InitQuarter == \E f \in Files(QuarterPool, MaxQuarterRecords) : FirstRun(read_csv(f))

SpecQuarter == InitQuarter /\ [][Next]_vars

MaxTrendRecords == 4

\* Rows of four consecutive months.
TrendPool ==
    {Row("C01", "MX", "Audit", "Payroll", <<2023, 10>>, Num(1), Num(1), Num(1), Num(1)),
     Row("C01", "MX", "Audit", "Payroll", <<2023, 10>>, Num(3), Num(1), Num(1), Num(1)),
     Row("C01", "MX", "Audit", "Payroll", <<2023, 11>>, Num(2), Num(1), Num(1), Num(1)),
     Row("C01", "MX", "Audit", "Payroll", <<2023, 12>>, Num(1), Num(1), Num(1), Num(1)),
     Row("C01", "MX", "Audit", "Payroll", <<2024, 1>>, Num(2), Num(1), Num(1), Num(1))}

InitTrend == \E f \in Files(TrendPool, MaxTrendRecords) : FirstRun(read_csv(f))

SpecTrend == InitTrend /\ [][Next]_vars

MaxMeasureRecords == 2

\* Rows of two clients and offerings whose cost and profit cells may be empty.
MeasurePool ==
    {Row(dims[1], "MX", "Audit", dims[2], <<2023, 11>>, Num(1), cost, gross, direct) :
        dims \in {<<"C01", "Payroll">>, <<"C02", "Advisory">>},
        cost \in {Num(2), NaN}, gross \in {Num(3), NaN}, direct \in {Num(-1), NaN}}

InitMeasure == \E f \in Files(MeasurePool, MaxMeasureRecords) : FirstRun(read_csv(f))

SpecMeasure == InitMeasure /\ [][Next]_vars

MaxClients == 11

Clients ==
    <<"C01", "C02", "C03", "C04", "C05", "C06", "C07", "C08", "C09", "C10",
      "C11", "C12", "C13">>

\* A file with one 2023Q4 row for each of MaxClients clients, of revenue 1 or 2.
Ledgers ==
    {[k \in 1..MaxClients |->
        Row(Clients[k], "MX", "Audit", "Payroll", <<2023, 11>>, Num(revenue[k]),
            Num(1), Num(1), Num(1))] :
        revenue \in [1..MaxClients -> {1, 2}]}

InitRank == \E f \in Ledgers : FirstRun(read_csv(f))

SpecRank == InitRank /\ [][Next]_vars

---------------------------------------------------------------------------
(* Properties.  Each recomputes what it states from data or filtered_data,  *)
(* by a route of its own.                                                   *)

RECURSIVE TotalOf(_, _, _)
\* The sum of the numbers in column col of the rows numbered in I.
TotalOf(rows, I, col) ==
    IF I = {} THEN 0
    ELSE LET i == CHOOSE j \in I : TRUE
         IN  (IF rows[i][col] = NaN THEN 0 ELSE Val(rows[i][col]))
             + TotalOf(rows, I \ {i}, col)

\* The filtered records of a group in a quarter.
InQuarter(by, key, quarter) ==
    {i \in DOMAIN filtered_data :
        filtered_data[i][by] = key /\ filtered_data[i]["Quarter"] = quarter}

Earlier == <<2023, 4>>
Later == <<2024, 1>>

\* The first position of a key in a column of filtered_data.
FirstSeen(col, key) ==
    SetMin({i \in DOMAIN filtered_data : filtered_data[i][col] = key})

\* C1: the filtered data holds exactly the records whose country is not
\* excluded, whose revenue is at least min_revenue and whose year-month is
\* selected, each once, unchanged and in the order of data; and data is still
\* the file as it was read.
C1_FilterKeepsExactlyThePassingRecords ==
    LET passing == {i \in DOMAIN data :
                      /\ data[i]["Country"] \notin selected_countries
                      /\ data[i]["Revenue"] # NaN
                      /\ min_revenue # NaN
                      /\ Val(data[i]["Revenue"]) >= Val(min_revenue)
                      /\ data[i]["[Year-Month]"] \in selected_dates}
        label(k) == filtered_data[k]["index"]
    IN  /\ {label(k) + 1 : k \in DOMAIN filtered_data} = passing
        /\ \A k \in DOMAIN filtered_data :
              \A c \in Columns : filtered_data[k][c] = data[label(k) + 1][c]
        /\ \A j, k \in DOMAIN filtered_data : j < k => label(j) < label(k)
        /\ \A i \in DOMAIN data : DOMAIN data[i] = Columns /\ data[i]["index"] = i - 1

\* A record without a country survives the exclusion of a country that drops
\* another record.
C1_Witness ==
    /\ selected_countries # {}
    /\ Len(filtered_data) < Len(data)
    /\ \E k \in DOMAIN filtered_data : filtered_data[k]["Country"] = NA

\* C2: every row of the three quarter tables holds a number in both quarter
\* columns, and 0 where the group has no filtered record in the quarter.
C2_QuarterColumnsAreFilledWithZero ==
    status = "done" =>
        /\ \A p \in DOMAIN client_revenue :
              /\ client_revenue[p]["2023Q4"] # NaN /\ client_revenue[p]["2024Q1"] # NaN
              /\ InQuarter("Client name", client_revenue[p]["Client name"], Earlier) = {}
                    => client_revenue[p]["2023Q4"] = Num(0)
              /\ InQuarter("Client name", client_revenue[p]["Client name"], Later) = {}
                    => client_revenue[p]["2024Q1"] = Num(0)
        /\ \A p \in DOMAIN service_line_quarterly :
              /\ service_line_quarterly[p]["2023Q4"] # NaN
              /\ service_line_quarterly[p]["2024Q1"] # NaN
              /\ InQuarter("Service Lines", service_line_quarterly[p]["Service Lines"], Earlier) = {}
                    => service_line_quarterly[p]["2023Q4"] = Num(0)
              /\ InQuarter("Service Lines", service_line_quarterly[p]["Service Lines"], Later) = {}
                    => service_line_quarterly[p]["2024Q1"] = Num(0)
        /\ \A p \in DOMAIN country_quarterly :
              /\ country_quarterly[p]["2023Q4"] # NaN
              /\ country_quarterly[p]["2024Q1"] # NaN
              /\ InQuarter("Country", country_quarterly[p]["Country"], Earlier) = {}
                    => country_quarterly[p]["2023Q4"] = Num(0)
              /\ InQuarter("Country", country_quarterly[p]["Country"], Later) = {}
                    => country_quarterly[p]["2024Q1"] = Num(0)

\* Change of a row is later - earlier, and is the number recomputed from the
\* filtered records of the group.
ChangeIsRecomputed(table, by) ==
    \A p \in DOMAIN table :
        /\ table[p]["2023Q4"] # NaN /\ table[p]["2024Q1"] # NaN
        /\ table[p]["Change"] = Num(Val(table[p]["2024Q1"]) - Val(table[p]["2023Q4"]))
        /\ table[p]["Change"] =
              Num(TotalOf(filtered_data, InQuarter(by, table[p][by], Later), "Revenue")
                  - TotalOf(filtered_data, InQuarter(by, table[p][by], Earlier), "Revenue"))

\* C3: in every row of the three change tables, Change is the later quarter's
\* value minus the earlier quarter's, and equals the group's filtered revenue
\* of 2024Q1 minus that of 2023Q4.
C3_ChangeIsLaterMinusEarlier ==
    status = "done" =>
        /\ ChangeIsRecomputed(client_revenue, "Client name")
        /\ ChangeIsRecomputed(service_line_quarterly, "Service Lines")
        /\ ChangeIsRecomputed(country_quarterly, "Country")

\* C4: a client of the filtered data is in the Lost Clients table exactly when
\* its filtered revenue of 2024Q1 sums to 0.
C4_LostClientsHaveNoLaterRevenue ==
    status = "done" =>
        \A c \in {filtered_data[i]["Client name"] : i \in DOMAIN filtered_data} \ {NA} :
            (TotalOf(filtered_data, InQuarter("Client name", c, Later), "Revenue") = 0)
                <=> (\E p \in DOMAIN lost_clients : lost_clients[p]["Client name"] = c)

\* The filtered records of a year-month.
InMonth(ym) == {i \in DOMAIN filtered_data : filtered_data[i]["[Year-Month]"] = ym}

FilteredMonths == {filtered_data[i]["[Year-Month]"] : i \in DOMAIN filtered_data}

MonthlyTotals == {TotalOf(filtered_data, InMonth(ym), "Revenue") : ym \in FilteredMonths}

\* C5: the rolling average has an entry for each month of the series; the
\* first two are missing, and from the third on an entry is the mean of the
\* month's revenue and the two before it.
C5_RollingAverageIsTrailingMean ==
    status = "done" =>
        /\ Len(monthly_revenue) = Cardinality(FilteredMonths)
        /\ \A i \in DOMAIN monthly_revenue :
              /\ DOMAIN monthly_revenue[i] = {"[Year-Month]", "Revenue", "views_history"}
              /\ i <= 2 => monthly_revenue[i]["views_history"] = NaN
              /\ i >= 3 => monthly_revenue[i]["views_history"] =
                    Num([num |-> Val(monthly_revenue[i - 2]["Revenue"])
                                 + Val(monthly_revenue[i - 1]["Revenue"])
                                 + Val(monthly_revenue[i]["Revenue"]),
                         den |-> 3])

\* A series of four months: the second average has dropped the first month.
C5_Witness ==
    /\ status = "done"
    /\ Len(monthly_revenue) >= 4
    /\ monthly_revenue[4]["views_history"] # NaN
    /\ monthly_revenue[4]["views_history"] # monthly_revenue[3]["views_history"]

\* The position of a client in the Lost Clients table.
LostPosition(client) ==
    CHOOSE p \in DOMAIN lost_clients : lost_clients[p]["Client name"] = client

\* Row a is ranked before row b: by Change, then by position in Lost Clients.
RankedBefore(a, b) ==
    \/ Val(a["Change"]) < Val(b["Change"])
    \/ /\ a["Change"] = b["Change"]
       /\ LostPosition(a["Client name"]) < LostPosition(b["Client name"])

C7_PeakAndLowAreOfTheMonthlySums ==
    status = "done" =>
        IF filtered_data = <<>> THEN peak_revenue = NaN /\ low_revenue = NaN
        ELSE /\ peak_revenue = Num(SetMax(MonthlyTotals))
             /\ low_revenue = Num(SetMin(MonthlyTotals))

\* The peak is above every record's revenue, and the low above the least.
C7_Witness ==
    /\ status = "done"
    /\ filtered_data # <<>>
    /\ \A i \in DOMAIN filtered_data :
          Val(peak_revenue) > Val(filtered_data[i]["Revenue"])
    /\ \E i \in DOMAIN filtered_data :
          Val(low_revenue) > Val(filtered_data[i]["Revenue"])

\* C8 as stated: the rows of the Service Offering Summary and of the monthly
\* series are in the order in which their keys first appear in filtered_data.
C8_GroupsInFirstSeenOrder ==
    status = "done" =>
        /\ \A p, q \in DOMAIN service_offerings_data :
              p < q => FirstSeen("Service Offerings", service_offerings_data[p]["Service Offerings"])
                       < FirstSeen("Service Offerings", service_offerings_data[q]["Service Offerings"])
        /\ \A p, q \in DOMAIN monthly_revenue :
              p < q => FirstSeen("[Year-Month]", monthly_revenue[p]["[Year-Month]"])
                       < FirstSeen("[Year-Month]", monthly_revenue[q]["[Year-Month]"])

\* C8 amended: the rows of the Service Offering Summary and of the monthly
\* series are in ascending order of their keys, one row for each key of
\* filtered_data, whatever the order of the records.
C8_GroupsInAscendingKeyOrder ==
    status = "done" =>
        /\ {service_offerings_data[p]["Service Offerings"] : p \in DOMAIN service_offerings_data}
              = {filtered_data[i]["Service Offerings"] : i \in DOMAIN filtered_data} \ {NA}
        /\ \A p, q \in DOMAIN service_offerings_data :
              p < q => LabelLess(service_offerings_data[p]["Service Offerings"],
                                 service_offerings_data[q]["Service Offerings"])
        /\ {monthly_revenue[p]["[Year-Month]"] : p \in DOMAIN monthly_revenue} = FilteredMonths
        /\ \A p, q \in DOMAIN monthly_revenue :
              p < q => PeriodLess(monthly_revenue[p]["[Year-Month]"],
                                  monthly_revenue[q]["[Year-Month]"])

\* Both tables have two rows, and the key of each second row is the one that
\* appears first in filtered_data.
C8_Witness ==
    /\ status = "done"
    /\ Len(service_offerings_data) = 2
    /\ Len(monthly_revenue) = 2
    /\ filtered_data[1]["Service Offerings"] = service_offerings_data[2]["Service Offerings"]
    /\ filtered_data[1]["[Year-Month]"] = monthly_revenue[2]["[Year-Month]"]

\* The filtered records of a group.
InGroup(by, key) == {i \in DOMAIN filtered_data : filtered_data[i][by] = key}

AllMissing(by, key, measure) ==
    \A i \in InGroup(by, key) : filtered_data[i][measure] = NaN

\* C9 as stated: a group's sum of a measure counts a missing value as 0 when
\* the group has a value for the measure, and is missing when it has none.
AsStatedSums(table, by) ==
    \A p \in DOMAIN table : \A m \in measures :
        IF AllMissing(by, table[p][by], m) THEN table[p][m] = NaN
        ELSE table[p][m] = Num(TotalOf(filtered_data, InGroup(by, table[p][by]), m))

C9_GroupSumIsMissingWhenAllAreMissing ==
    status = "done" =>
        /\ AsStatedSums(service_offerings_data, "Service Offerings")
        /\ AsStatedSums(client_profitability, "Client name")

\* C9 amended: a group's sum of a measure counts a missing value as 0, and is
\* 0 when every record of the group is missing the measure.
SkippingSums(table, by) ==
    \A p \in DOMAIN table : \A m \in measures :
        table[p][m] = Num(TotalOf(filtered_data, InGroup(by, table[p][by]), m))

C9_GroupSumCountsMissingAsZero ==
    status = "done" =>
        /\ SkippingSums(service_offerings_data, "Service Offerings")
        /\ SkippingSums(client_profitability, "Client name")

\* An offering with a cost in one record and none in the other, and a client
\* none of whose records has a gross profit.
C9_Witness ==
    /\ status = "done"
    /\ \E p \in DOMAIN service_offerings_data :
          LET key == service_offerings_data[p]["Service Offerings"]
          IN  /\ ~AllMissing("Service Offerings", key, "Total Cost")
              /\ \E i \in InGroup("Service Offerings", key) :
                    filtered_data[i]["Total Cost"] = NaN
    /\ \E p \in DOMAIN client_profitability :
          /\ AllMissing("Client name", client_profitability[p]["Client name"], "Gross Profit")
          /\ client_profitability[p]["Gross Profit"] = Num(0)

=============================================================================
